---------------------------- MODULE Spec2Model ----------------------------
(***************************************************************************)
(* Model of WorkspaceCommandContribution.validateFileName and trimFileName *)
(* (treeview-example-decoration-service.ts).  Strings are sequences of     *)
(* one-character strings, so that messages, prefixes and truncation are    *)
(* computed character by character as the code computes them.              *)
(***************************************************************************)
EXTENDS Integers, Sequences, FiniteSets, TLC

(***************************************************************************)
(* Bounds of the model.                                                    *)
(***************************************************************************)
\* longest name enumerated character by character
MaxLen == 3
\* longest head and tail of the enumerated long names
MaxAffix == 1

(***************************************************************************)
(* Characters.                                                             *)
(***************************************************************************)
\* U+00A0 NO-BREAK SPACE, one UTF-16 code unit, written as a token
NBSP == "<U+00A0>"

\* the two characters of the regular expression /[\\/]/ of line 407
Separators == {"/", "\\"}

\* the characters the regular expression class \s of line 407 matches
\* (the ones a TLA+ string can hold, and U+00A0 for the non-ASCII ones)
WhitespaceChars == {" ", "\t", "\n", "\r", "\f", NBSP}

\* the characters valid-filename rejects: < > : " / \ | ? * and the control
\* characters U+0000..U+001F (the four a TLA+ string can hold)
ReservedChars == {"<", ">", ":", "\"", "/", "\\", "|", "?", "*", "\t", "\n", "\r", "\f"}

\* one representative of every class of character the code distinguishes:
\* ordinary, dot, space, the two separators, reserved printable, reserved
\* control whitespace, and whitespace that is neither a space nor reserved
Alphabet == {"a", ".", " ", "/", "\\", "<", "\t", NBSP}

AffixChars == {"a", ".", " ", "/"}

(***************************************************************************)
(* String helpers (String.prototype.startsWith, endsWith, split, substr).  *)
(***************************************************************************)
startsWith(s, c) == Len(s) >= 1 /\ s[1] = c

endsWith(s, c) == Len(s) >= 1 /\ s[Len(s)] = c

\* String.prototype.substr(0, n)
substr0(s, n) == SubSeq(s, 1, IF Len(s) < n THEN Len(s) ELSE n)

\* String.prototype.includes
Contains(s, sub) ==
    \E i \in 1..(Len(s) - Len(sub) + 1) : SubSeq(s, i, i + Len(sub) - 1) = sub

\* index of the first separator of s, 0 when there is none
FirstSeparator(s) ==
    IF \E i \in DOMAIN s : s[i] \in Separators
    THEN CHOOSE i \in DOMAIN s :
            /\ s[i] \in Separators
            /\ \A j \in 1..(i - 1) : s[j] \notin Separators
    ELSE 0

\* name.split(/[\\/]/): the segments between separators, empty ones kept
RECURSIVE split(_)
split(s) ==
    LET i == FirstSeparator(s)
    IN  IF i = 0 THEN <<s>>
        ELSE <<SubSeq(s, 1, i - 1)>> \o split(SubSeq(s, i + 1, Len(s)))

\* /^\s+$/.test(file)
OnlyWhitespace(file) ==
    Len(file) >= 1 /\ \A i \in DOMAIN file : file[i] \in WhitespaceChars

(***************************************************************************)
(* valid-filename (required at line 70): false for the empty string, for   *)
(* more than 255 characters, for a reserved character, for a Windows       *)
(* device name (case-insensitive) and for "." and "..".                    *)
(***************************************************************************)
UpperCase == <<"A", "B", "C", "D", "E", "F", "G", "H", "I", "J", "K", "L", "M",
               "N", "O", "P", "Q", "R", "S", "T", "U", "V", "W", "X", "Y", "Z">>

LowerCase == <<"a", "b", "c", "d", "e", "f", "g", "h", "i", "j", "k", "l", "m",
               "n", "o", "p", "q", "r", "s", "t", "u", "v", "w", "x", "y", "z">>

toLowerChar(c) ==
    IF \E i \in DOMAIN UpperCase : UpperCase[i] = c
    THEN LowerCase[CHOOSE i \in DOMAIN UpperCase : UpperCase[i] = c]
    ELSE c

toLowerCase(s) == [i \in DOMAIN s |-> toLowerChar(s[i])]

Digits == {"0", "1", "2", "3", "4", "5", "6", "7", "8", "9"}

\* /^(con|prn|aux|nul|com[0-9]|lpt[0-9])$/i
windowsNames(str) ==
    LET l == toLowerCase(str)
    IN  \/ l \in {<<"c", "o", "n">>, <<"p", "r", "n">>, <<"a", "u", "x">>, <<"n", "u", "l">>}
        \/ /\ Len(l) = 4
           /\ SubSeq(l, 1, 3) \in {<<"c", "o", "m">>, <<"l", "p", "t">>}
           /\ l[4] \in Digits

validFilename(str) ==
    /\ str # <<>>
    /\ Len(str) <= 255
    /\ ~ \E i \in DOMAIN str : str[i] \in ReservedChars
    /\ ~ windowsNames(str)
    /\ str \notin {<<".">>, <<".", ".">>}

(***************************************************************************)
(* The messages of validateFileName, character by character.               *)
(***************************************************************************)
(* 'Invalid file or folder name' *)
MsgInvalid ==
    <<"I", "n", "v", "a", "l", "i", "d", " ", "f", "i", "l", "e", " ", "o",
       "r", " ", "f", "o", "l", "d", "e", "r", " ", "n", "a", "m", "e">>

(* 'Absolute paths or names that starts with / are not allowed' *)
MsgAbsolute ==
    <<"A", "b", "s", "o", "l", "u", "t", "e", " ", "p", "a", "t", "h", "s",
       " ", "o", "r", " ", "n", "a", "m", "e", "s", " ", "t", "h", "a", "t",
       " ", "s", "t", "a", "r", "t", "s", " ", "w", "i", "t", "h", " ", "/",
       " ", "a", "r", "e", " ", "n", "o", "t", " ", "a", "l", "l", "o", "w",
       "e", "d">>

(* 'Names with leading or trailing whitespaces are not allowed' *)
MsgWhitespace ==
    <<"N", "a", "m", "e", "s", " ", "w", "i", "t", "h", " ", "l", "e", "a",
       "d", "i", "n", "g", " ", "o", "r", " ", "t", "r", "a", "i", "l", "i",
       "n", "g", " ", "w", "h", "i", "t", "e", "s", "p", "a", "c", "e", "s",
       " ", "a", "r", "e", " ", "n", "o", "t", " ", "a", "l", "l", "o", "w",
       "e", "d">>

(* 'The name "' *)
NotValidPrefix ==
    <<"T", "h", "e", " ", "n", "a", "m", "e", " ", "\"">>

(* '" is not a valid file or folder name.' *)
NotValidSuffix ==
    <<"\"", " ", "i", "s", " ", "n", "o", "t", " ", "a", " ", "v", "a", "l",
       "i", "d", " ", "f", "i", "l", "e", " ", "o", "r", " ", "f", "o", "l",
       "d", "e", "r", " ", "n", "a", "m", "e", ".">>

(* 'A file or folder "' *)
ExistsPrefix ==
    <<"A", " ", "f", "i", "l", "e", " ", "o", "r", " ", "f", "o", "l", "d",
       "e", "r", " ", "\"">>

(* '" already exists at this location.' *)
ExistsSuffix ==
    <<"\"", " ", "a", "l", "r", "e", "a", "d", "y", " ", "e", "x", "i", "s",
       "t", "s", " ", "a", "t", " ", "t", "h", "i", "s", " ", "l", "o", "c",
       "a", "t", "i", "o", "n", ".">>

(* 'Absolute paths' *)
AbsolutePathsWords ==
    <<"A", "b", "s", "o", "l", "u", "t", "e", " ", "p", "a", "t", "h", "s">>

\* the ellipsis trimFileName appends
Ellipsis == <<".", ".", ".">>

\* the longest name trimFileName shows unchanged
TrimLen == 30

NotValidMessage(shown) == NotValidPrefix \o shown \o NotValidSuffix

ExistsMessage(shown) == ExistsPrefix \o shown \o ExistsSuffix

(***************************************************************************)
(* trimFileName                                                            *)
(***************************************************************************)
\* trimFileName with its comparison off by one
trimFileNameOffByOne(name) ==
    IF name # <<>> /\ Len(name) >= TrimLen
    THEN substr0(name, TrimLen) \o Ellipsis
    ELSE name

trimFileName(name) ==
    IF name # <<>> /\ Len(name) > TrimLen
    THEN substr0(name, TrimLen) \o Ellipsis
    ELSE name

(***************************************************************************)
(* validateFileName, up to its one suspension point.  The value is the     *)
(* message returned, or Await when the code goes on to                     *)
(* await fileService.exists(childUri).                                     *)
(***************************************************************************)
Await == [await |-> TRUE]

Return(msg) == [await |-> FALSE, msg |-> msg]

\* badSegment without its valid-filename test
badSegmentNoValidCheck(file) ==
    file = <<>> \/ OnlyWhitespace(file)

\* the predicate of name.split(/[\\/]/).some(...) at line 407
badSegment(file) ==
    file = <<>> \/ ~ validFilename(file) \/ OnlyWhitespace(file)

someBadSegment(name) ==
    LET files == split(name) IN \E i \in DOMAIN files : badSegment(files[i])

\* variants of validateFileNameSync, each with one plausible slip
validateFileNameSyncNoEmptyCheck(name, recursive) ==
    IF ~ recursive /\ ~ validFilename(name) THEN Return(MsgInvalid)
    ELSE IF startsWith(name, "/") THEN Return(MsgAbsolute)
    ELSE IF startsWith(name, " ") \/ endsWith(name, " ") THEN Return(MsgWhitespace)
    ELSE IF someBadSegment(name) THEN Return(NotValidMessage(trimFileName(name)))
    ELSE Await

validateFileNameSyncAbsoluteFirst(name, recursive) ==
    IF name = <<>> THEN Return(<<>>)
    ELSE IF startsWith(name, "/") THEN Return(MsgAbsolute)
    ELSE IF ~ recursive /\ ~ validFilename(name) THEN Return(MsgInvalid)
    ELSE IF startsWith(name, " ") \/ endsWith(name, " ") THEN Return(MsgWhitespace)
    ELSE IF someBadSegment(name) THEN Return(NotValidMessage(trimFileName(name)))
    ELSE Await

validateFileNameSyncLeadingOnly(name, recursive) ==
    IF name = <<>> THEN Return(<<>>)
    ELSE IF ~ recursive /\ ~ validFilename(name) THEN Return(MsgInvalid)
    ELSE IF startsWith(name, "/") THEN Return(MsgAbsolute)
    ELSE IF startsWith(name, " ") THEN Return(MsgWhitespace)
    ELSE IF someBadSegment(name) THEN Return(NotValidMessage(trimFileName(name)))
    ELSE Await

validateFileNameSyncNoWhitespaceCheck(name, recursive) ==
    IF name = <<>> THEN Return(<<>>)
    ELSE IF ~ recursive /\ ~ validFilename(name) THEN Return(MsgInvalid)
    ELSE IF startsWith(name, "/") THEN Return(MsgAbsolute)
    ELSE IF someBadSegment(name) THEN Return(NotValidMessage(trimFileName(name)))
    ELSE Await

validateFileNameSyncNoSingleSegmentCheck(name, recursive) ==
    IF name = <<>> THEN Return(<<>>)
    ELSE IF startsWith(name, "/") THEN Return(MsgAbsolute)
    ELSE IF startsWith(name, " ") \/ endsWith(name, " ") THEN Return(MsgWhitespace)
    ELSE IF someBadSegment(name) THEN Return(NotValidMessage(trimFileName(name)))
    ELSE Await

validateFileNameSync(name, recursive) ==
    IF name = <<>> THEN Return(<<>>)
    ELSE IF ~ recursive /\ ~ validFilename(name) THEN Return(MsgInvalid)
    ELSE IF startsWith(name, "/") THEN Return(MsgAbsolute)
    ELSE IF startsWith(name, " ") \/ endsWith(name, " ") THEN Return(MsgWhitespace)
    ELSE IF someBadSegment(name) THEN Return(NotValidMessage(trimFileName(name)))
    ELSE Await

\* variants of validateFileNameResume, each with one plausible slip
validateFileNameResumeUntrimmed(name, exists) ==
    IF exists THEN ExistsMessage(name) ELSE <<>>

validateFileNameResumeInverted(name, exists) ==
    IF ~ exists THEN ExistsMessage(trimFileName(name)) ELSE <<>>

\* the rest of validateFileName, once fileService.exists has answered
validateFileNameResume(name, exists) ==
    IF exists THEN ExistsMessage(trimFileName(name)) ELSE <<>>

(***************************************************************************)
(* The filesystem collaborator.                                            *)
(***************************************************************************)
\* parent.resource.resolve(name): the name joined to the parent's path
resolve(parentPath, name) ==
    IF name = <<>> THEN parentPath
    ELSE IF endsWith(parentPath, "/") THEN parentPath \o name
    ELSE parentPath \o <<"/">> \o name

\* the answer of fileService.exists when it answers
exists(files, uri) == uri \in files

(***************************************************************************)
(* The inputs.                                                             *)
(***************************************************************************)
RECURSIVE SeqsUpTo(_, _)
SeqsUpTo(chars, n) ==
    IF n = 0 THEN {<<>>}
    ELSE LET shorter == SeqsUpTo(chars, n - 1)
         IN  shorter \cup {Append(s, c) : s \in shorter, c \in chars}

Repeat(c, n) == [i \in 1..n |-> c]

\* lengths around the truncation limit, the 40 of the documented example,
\* and one past the longest file name valid-filename accepts
LongLengths == {TrimLen, TrimLen + 1, TrimLen + 2, TrimLen + 3, TrimLen + 4, 40, 256}

Affixes == SeqsUpTo(AffixChars, MaxAffix)

\* head, then "a" repeated, then tail, n characters in all
LongNames ==
    {h \o Repeat("a", n - Len(h) - Len(t)) \o t : h \in Affixes, t \in Affixes, n \in LongLengths}

\* Windows device names and names built on them
DeviceNames ==
    {<<"n", "u", "l">>, <<"N", "u", "L">>, <<"c", "o", "m", "1">>, <<"L", "P", "T", "9">>,
     <<"c", "o", "n", ".", "a">>, <<"a", "/", "a", "u", "x">>, <<"c", "o", "m", "a">>}

Names == SeqsUpTo(Alphabet, MaxLen) \cup LongNames \cup DeviceNames

\* the paths of the parent directories
Parents == {<<"/">>, <<"/", "r">>}

\* an entry of the parent no candidate name resolves to
sibling(parentPath) == resolve(parentPath, <<"z">>)

(***************************************************************************)
(* The state: one call of validateFileName and the filesystem it asks.     *)
(***************************************************************************)
VARIABLES
    name,          \* the argument name
    parent,        \* parent.resource, the path of the parent directory
    recursive,     \* the argument recursive
    fs,            \* the paths at which an entry exists
    pc,            \* "called", "awaitExists", "returned" or "rejected"
    result,        \* the string returned, once pc = "returned"
    lookups,       \* the number of calls of fileService.exists made
    entryExisted   \* whether an entry existed at childUri when the call completed

\* the command that runs the dialog and the filesystem operation, and the
\* workspace it acts on
VARIABLES
    cmd,           \* "none", "newFile", "newFolder", "rename", "addFolder", "removeFolder"
    cpc,           \* the command's position
    uris,          \* the URIs the command handler is given
    ops,           \* the create, createFolder, move and addRoot calls issued
    events,        \* the DidCreateNewResourceEvents fired, with their emitter
    roots,         \* the workspace roots
    failedLookups, \* the URIs whose fileService.resolve failed in this command
    rootsAtStart,  \* the roots when removeFolderFromWorkspace started
    toRemove,      \* the local toRemove of removeFolderFromWorkspace
    dialogs,       \* the number of ConfirmDialogs opened
    removeCalls    \* the arguments of the calls of workspaceService.removeRoots

cmdVars == <<cmd, cpc, uris, ops, events, roots, failedLookups, rootsAtStart,
             toRemove, dialogs, removeCalls>>

\* no command runs: validateFileName is called on its own
NoCommand ==
    /\ cmd = "none"
    /\ cpc = "none"
    /\ uris = <<>>
    /\ ops = <<>>
    /\ events = <<>>
    /\ roots = {}
    /\ failedLookups = {}
    /\ rootsAtStart = {}
    /\ toRemove = <<>>
    /\ dialogs = 0
    /\ removeCalls = <<>>

vars == <<name, parent, recursive, fs, pc, result, lookups, entryExisted, cmdVars>>

childUri == resolve(parent, name)

Init ==
    /\ name \in Names
    /\ parent \in Parents
    /\ recursive \in BOOLEAN
    /\ fs \in {{sibling(parent)}, {sibling(parent), resolve(parent, name)}}
    /\ pc = "called"
    /\ result = <<>>
    /\ lookups = 0
    /\ entryExisted = FALSE
    /\ NoCommand

\* lines 393-411: the checks made before the lookup, and the call of exists
ValidateFileName ==
    /\ pc = "called"
    /\ LET r == validateFileNameSync(name, recursive)
       IN  IF r.await
           THEN /\ pc' = "awaitExists"
                /\ lookups' = lookups + 1
                /\ UNCHANGED <<result, entryExisted>>
           ELSE /\ pc' = "returned"
                /\ result' = r.msg
                /\ entryExisted' = exists(fs, childUri)
                /\ UNCHANGED lookups
    /\ UNCHANGED <<name, parent, recursive, fs>>
    /\ UNCHANGED cmdVars

\* lines 411-415: fileService.exists answers
ExistsResolves ==
    /\ pc = "awaitExists"
    /\ pc' = "returned"
    /\ entryExisted' = exists(fs, childUri)
    /\ result' = validateFileNameResume(name, exists(fs, childUri))
    /\ UNCHANGED <<name, parent, recursive, fs, lookups>>
    /\ UNCHANGED cmdVars

\* line 411: fileService.exists fails; nothing catches it, the promise of
\* validateFileName is rejected
ExistsRejects ==
    /\ pc = "awaitExists"
    /\ pc' = "rejected"
    /\ entryExisted' = exists(fs, childUri)
    /\ UNCHANGED <<name, parent, recursive, fs, result, lookups>>
    /\ UNCHANGED cmdVars

\* other filesystem activity: an entry appears at the candidate's location
FsCreate ==
    /\ childUri \notin fs
    /\ fs' = fs \cup {childUri}
    /\ UNCHANGED <<name, parent, recursive, pc, result, lookups, entryExisted>>
    /\ UNCHANGED cmdVars

\* other filesystem activity: the entry at the candidate's location goes
FsDelete ==
    /\ childUri \in fs
    /\ fs' = fs \ {childUri}
    /\ UNCHANGED <<name, parent, recursive, pc, result, lookups, entryExisted>>
    /\ UNCHANGED cmdVars

Next ==
    \/ ValidateFileName
    \/ ExistsResolves
    \/ ExistsRejects
    \/ FsCreate
    \/ FsDelete

Spec == Init /\ [][Next]_vars

(***************************************************************************)
(* The commands: NEW_FILE, NEW_FOLDER and FILE_RENAME (lines 254-334).     *)
(***************************************************************************)
\* the longest list of URIs handed to REMOVE_FOLDER
MaxUris == 2

\* the directories and the file of the workspace the commands act on
RootR == <<"/", "r">>

RootW == <<"/", "w">>

FileF == <<"/", "r", "/", "f">>

DirPaths == {<<"/">>, RootR, RootW}

CmdPaths == DirPaths \cup {FileF}

\* what the user may leave in the input field of the dialog
DialogValues == {<<>>, <<"f">>, <<"a">>, <<"a", "/", "b">>, <<"a", " ">>}

\* stat.isDirectory of a resolved entry
isDirectory(uri) == uri \in DirPaths

LastSlash(path) ==
    CHOOSE i \in 0..Len(path) :
        /\ i > 0 => path[i] = "/"
        /\ \A j \in (i + 1)..Len(path) : path[j] # "/"

\* uri.parent
parentOf(uri) ==
    IF LastSlash(uri) <= 1 THEN <<"/">> ELSE SubSeq(uri, 1, LastSlash(uri) - 1)

\* uri.path.base
base(uri) == SubSeq(uri, LastSlash(uri) + 1, Len(uri))

\* workspaceService.getWorkspaceRootUri(uri) is defined
UnderRoot(uri, rs) == uri \in rs \/ parentOf(uri) \in rs

\* the emitter whose fire method each command calls (lines 272 and 294)
emitterFiredBy(command) ==
    IF command = "newFile" THEN "onDidCreateNewFile" ELSE "onDidCreateNewFile"

\* the filesystem call each command issues for the accepted name
operationOf(command) ==
    IF command = "newFile" THEN "create"
    ELSE IF command = "newFolder" THEN "createFolder"
    ELSE "move"

\* the URI the command handler works on
uri == uris[1]

\* the location the accepted name resolves to (lines 270, 292 and 328)
targetUri ==
    IF cmd = "rename" THEN resolve(parentOf(uri), name) ELSE resolve(parent, name)

valVars == <<name, recursive, pc, result, lookups, entryExisted>>

wsVars == <<roots, rootsAtStart, toRemove, dialogs, removeCalls>>

\* lines 425-434, up to the answer of fileService.resolve(candidate)
GetDirectory ==
    /\ cmd \in {"newFile", "newFolder"}
    /\ cpc = "start"
    /\ \E answers \in BOOLEAN :
        LET stat == answers /\ uri \in fs
        IN  /\ failedLookups' = IF stat THEN failedLookups ELSE failedLookups \cup {uri}
            /\ IF stat /\ isDirectory(uri)
               THEN parent' = uri /\ cpc' = "dialog"
               ELSE parent' = parent /\ cpc' = "getParent"
    /\ UNCHANGED <<valVars, fs, cmd, uris, ops, events, wsVars>>

\* line 305 for FILE_RENAME
RenameStart ==
    /\ cmd = "rename"
    /\ cpc = "start"
    /\ cpc' = "getParent"
    /\ UNCHANGED <<valVars, parent, fs, cmd, uris, ops, events, failedLookups, wsVars>>

\* lines 436-442: fileService.resolve(candidate.parent) answers or fails
GetParent ==
    /\ cpc = "getParent"
    /\ \E answers \in BOOLEAN :
        LET stat == answers /\ parentOf(uri) \in fs
        IN  IF stat
            THEN /\ parent' = parentOf(uri)
                 /\ cpc' = IF cmd = "rename" THEN "resolveUri" ELSE "dialog"
                 /\ UNCHANGED failedLookups
            ELSE /\ failedLookups' = failedLookups \cup {parentOf(uri)}
                 /\ cpc' = "noParent"
                 /\ UNCHANGED parent
    /\ UNCHANGED <<valVars, fs, cmd, uris, ops, events, wsVars>>

\* line 308: fileService.resolve(uri) answers, or fails with nothing to
\* catch it
RenameResolve ==
    /\ cmd = "rename"
    /\ cpc = "resolveUri"
    /\ \E answers \in BOOLEAN :
        IF answers /\ uri \in fs
        THEN cpc' = "dialog" /\ UNCHANGED failedLookups
        ELSE cpc' = "threw" /\ failedLookups' = failedLookups \cup {uri}
    /\ UNCHANGED <<valVars, parent, fs, cmd, uris, ops, events, wsVars>>

\* the dialog validates the value of its input field (lines 265, 288 and
\* 318-323)
DialogValidate ==
    /\ cpc = "dialog"
    /\ pc \in {"idle", "returned", "rejected", "refused"}
    /\ \E value \in DialogValues, mode \in {"preview", "open"} :
        /\ name' = value
        /\ recursive' = (cmd # "rename")
        /\ pc' = IF cmd = "rename" /\ base(uri) = value /\ mode = "preview"
                 THEN "refused" ELSE "called"
    /\ result' = <<>>
    /\ lookups' = 0
    /\ entryExisted' = FALSE
    /\ UNCHANGED <<parent, fs, cmdVars>>

\* the dialog closes with the value it last found valid
DialogAccept ==
    /\ cpc = "dialog"
    /\ pc = "returned"
    /\ result = <<>>
    /\ cpc' = "accepted"
    /\ UNCHANGED <<valVars, parent, fs, cmd, uris, ops, events, failedLookups, wsVars>>

\* the dialog is closed without a value
DialogCancel ==
    /\ cpc = "dialog"
    /\ cpc' = "cancelled"
    /\ UNCHANGED <<valVars, parent, fs, cmd, uris, ops, events, failedLookups, wsVars>>

\* lines 269-271, 291-293 and 326-329: the filesystem call for the name
IssueOperation ==
    /\ cpc = "accepted"
    /\ IF name = <<>>
       THEN cpc' = "noName" /\ UNCHANGED ops
       ELSE /\ ops' = Append(ops, [op |-> operationOf(cmd),
                                   target |-> targetUri,
                                   existed |-> targetUri \in fs,
                                   lookups |-> lookups,
                                   lookupSawEntry |-> entryExisted])
            /\ cpc' = IF cmd = "rename" THEN "moving" ELSE "creating"
    /\ UNCHANGED <<valVars, parent, fs, cmd, uris, events, failedLookups, wsVars>>

\* lines 271-273 and 293-294: create or createFolder completes, the event
\* is fired
CreateResolves ==
    /\ cpc = "creating"
    /\ fs' = fs \cup {targetUri}
    /\ events' = Append(events, [emitter |-> emitterFiredBy(cmd),
                                 parent |-> parent,
                                 uri |-> targetUri])
    /\ cpc' = "created"
    /\ UNCHANGED <<valVars, parent, cmd, uris, ops, failedLookups, wsVars>>

\* create or createFolder fails: the rest of the callback does not run
CreateRejects ==
    /\ cpc = "creating"
    /\ cpc' = "createFailed"
    /\ UNCHANGED <<valVars, parent, fs, cmd, uris, ops, events, failedLookups, wsVars>>

\* line 329: the move, which the handler does not await, completes
MoveResolves ==
    /\ cpc = "moving"
    /\ fs' = (fs \ {uri}) \cup {targetUri}
    /\ cpc' = "moved"
    /\ UNCHANGED <<valVars, parent, cmd, uris, ops, events, failedLookups, wsVars>>

MoveRejects ==
    /\ cpc = "moving"
    /\ cpc' = "moveFailed"
    /\ UNCHANGED <<valVars, parent, fs, cmd, uris, ops, events, failedLookups, wsVars>>

(***************************************************************************)
(* ADD_FOLDER and REMOVE_FOLDER (lines 342-370, 444-453 and 475-506).      *)
(***************************************************************************)
Range(s) == {s[i] : i \in DOMAIN s}

\* line 477: uris.filter(uri => roots.has(uri.toString()))
toRemoveOf(us, rs) == SelectSeq(us, LAMBDA u : u \in rs)

\* removeFolderFromWorkspace removing whatever the dialog answers
removeRootsCalledNoConfirm(answer) == TRUE

\* line 502: if (await dialog.open())
removeRootsCalled(answer) == answer

\* lines 343-352 and 444-448: the folder chosen in the open dialog is
\* resolved; every failure is caught
AddFolderToWorkspace ==
    /\ cmd = "addFolder"
    /\ cpc = "start"
    /\ IF uris = <<>>
       THEN cpc' = "noUri" /\ UNCHANGED <<ops, failedLookups>>
       ELSE \E answers \in BOOLEAN :
               LET stat == answers /\ uri \in fs
               IN  /\ failedLookups' = IF stat THEN failedLookups
                                       ELSE failedLookups \cup {uri}
                   /\ IF stat /\ isDirectory(uri)
                      THEN /\ ops' = Append(ops, [op |-> "addRoot",
                                                  target |-> uri,
                                                  existed |-> TRUE,
                                                  lookups |-> 0,
                                                  lookupSawEntry |-> FALSE])
                           /\ cpc' = "addingRoot"
                      ELSE cpc' = "notAdded" /\ UNCHANGED ops
    /\ UNCHANGED <<valVars, parent, fs, cmd, uris, events, wsVars>>

\* lines 449-451: workspaceService.addRoot completes, or fails and is caught
AddRootResolves ==
    /\ cpc = "addingRoot"
    /\ roots' = roots \cup {uri}
    /\ cpc' = "added"
    /\ UNCHANGED <<valVars, parent, fs, cmd, uris, ops, events, failedLookups,
                   rootsAtStart, toRemove, dialogs, removeCalls>>

AddRootRejects ==
    /\ cpc = "addingRoot"
    /\ cpc' = "notAdded"
    /\ UNCHANGED <<valVars, parent, fs, cmd, uris, ops, events, failedLookups, wsVars>>

\* lines 475-501: the roots among the URIs are listed in a ConfirmDialog
RemoveFolderFromWorkspace ==
    /\ cmd = "removeFolder"
    /\ cpc = "start"
    /\ rootsAtStart' = roots
    /\ toRemove' = toRemoveOf(uris, roots)
    /\ IF Len(toRemoveOf(uris, roots)) > 0
       THEN dialogs' = dialogs + 1 /\ cpc' = "confirm"
       ELSE dialogs' = dialogs /\ cpc' = "nothingToRemove"
    /\ UNCHANGED <<valVars, parent, fs, cmd, uris, ops, events, roots, failedLookups,
                   removeCalls>>

\* lines 502-504: the dialog answers
ConfirmAnswers ==
    /\ cpc = "confirm"
    /\ \E answer \in BOOLEAN :
        IF removeRootsCalled(answer)
        THEN /\ removeCalls' = Append(removeCalls, [uris |-> toRemove, answer |-> answer])
             /\ cpc' = "removing"
        ELSE removeCalls' = removeCalls /\ cpc' = "declined"
    /\ UNCHANGED <<valVars, parent, fs, cmd, uris, ops, events, roots, failedLookups,
                   rootsAtStart, toRemove, dialogs>>

\* line 503: workspaceService.removeRoots completes
RemoveRootsResolves ==
    /\ cpc = "removing"
    /\ roots' = roots \ Range(toRemove)
    /\ cpc' = "removed"
    /\ UNCHANGED <<valVars, parent, fs, cmd, uris, ops, events, failedLookups,
                   rootsAtStart, toRemove, dialogs, removeCalls>>

\* while the dialog is open the roots change by other means
RootsChangeElsewhere ==
    /\ cmd = "removeFolder"
    /\ cpc = "confirm"
    /\ \E r \in {RootR, RootW} :
        roots' = IF r \in roots THEN roots \ {r} ELSE roots \cup {r}
    /\ UNCHANGED <<valVars, parent, fs, cmd, cpc, uris, ops, events, failedLookups,
                   rootsAtStart, toRemove, dialogs, removeCalls>>

CmdInit ==
    /\ cmd \in {"newFile", "newFolder", "rename", "addFolder", "removeFolder"}
    /\ cpc = "start"
    /\ roots \in SUBSET {RootR, RootW}
    /\ uris \in IF cmd = "removeFolder" THEN SeqsUpTo(CmdPaths \ {<<"/">>}, MaxUris)
               ELSE IF cmd = "addFolder" THEN {<<>>} \cup {<<u>> : u \in CmdPaths \ {<<"/">>}}
               ELSE {<<u>> : u \in CmdPaths \ {<<"/">>}}
    /\ cmd \in {"newFile", "newFolder"} => UnderRoot(uri, roots)
    /\ cmd = "rename" => uri \notin roots
    /\ fs \in {{<<"/">>} \cup s : s \in SUBSET (CmdPaths \ {<<"/">>})}
    /\ name = <<>>
    /\ parent = <<>>
    /\ recursive = FALSE
    /\ pc = "idle"
    /\ result = <<>>
    /\ lookups = 0
    /\ entryExisted = FALSE
    /\ ops = <<>>
    /\ events = <<>>
    /\ failedLookups = {}
    /\ rootsAtStart = {}
    /\ toRemove = <<>>
    /\ dialogs = 0
    /\ removeCalls = <<>>

CmdNext ==
    \/ GetDirectory
    \/ RenameStart
    \/ GetParent
    \/ RenameResolve
    \/ DialogValidate
    \/ ValidateFileName
    \/ ExistsResolves
    \/ ExistsRejects
    \/ (cpc \in {"dialog", "accepted"} /\ FsCreate)
    \/ (cpc \in {"dialog", "accepted"} /\ FsDelete)
    \/ DialogAccept
    \/ DialogCancel
    \/ IssueOperation
    \/ CreateResolves
    \/ CreateRejects
    \/ MoveResolves
    \/ MoveRejects
    \/ AddFolderToWorkspace
    \/ AddRootResolves
    \/ AddRootRejects
    \/ RemoveFolderFromWorkspace
    \/ ConfirmAnswers
    \/ RemoveRootsResolves
    \/ RootsChangeElsewhere

SpecCmd == CmdInit /\ [][CmdNext]_vars

(***************************************************************************)
(* Vocabulary of the properties.                                           *)
(***************************************************************************)
HasSeparator(n) == \E i \in DOMAIN n : n[i] \in Separators

LeadingOrTrailingSpace(n) == startsWith(n, " ") \/ endsWith(n, " ")

LeadingOrTrailingWhitespace(n) ==
    Len(n) >= 1 /\ (n[1] \in WhitespaceChars \/ n[Len(n)] \in WhitespaceChars)

\* the display form of a name: the name when it has at most 30 characters,
\* else its first 30 characters and an ellipsis
DisplayForm(n) ==
    IF Len(n) <= 30 THEN n ELSE SubSeq(n, 1, 30) \o <<".", ".", ".">>

\* every segment between separators is non-empty, a valid file name and
\* not whitespace only
EverySegmentValid(n) ==
    \A i \in DOMAIN split(n) :
        /\ split(n)[i] # <<>>
        /\ validFilename(split(n)[i])
        /\ ~ OnlyWhitespace(split(n)[i])

\* the name is non-empty and none of the syntactic rules rejects it
PassesSyntax ==
    /\ name # <<>>
    /\ recursive \/ validFilename(name)
    /\ ~ startsWith(name, "/")
    /\ ~ LeadingOrTrailingSpace(name)
    /\ EverySegmentValid(name)

Completed == pc \in {"returned", "rejected"}

(***************************************************************************)
(* C1: for a non-empty name that passes every syntactic check, when an     *)
(* entry exists at parent.resource.resolve(name) the call returns the      *)
(* non-empty "already exists" message, and the message contains the        *)
(* truncated display form of the name.                                     *)
(***************************************************************************)
C1_ExistingEntryRejected ==
    (pc = "returned" /\ PassesSyntax /\ entryExisted)
        => /\ result # <<>>
           /\ result = ExistsPrefix \o DisplayForm(name) \o ExistsSuffix
           /\ Contains(result, DisplayForm(name))

C1_Witness ==
    /\ pc = "returned"
    /\ PassesSyntax
    /\ entryExisted
    /\ HasSeparator(name)
    /\ result = ExistsMessage(name)

(***************************************************************************)
(* C2: for a non-empty name that no rejection rule rejects, when no entry  *)
(* exists at the location resolved against the parent the call returns     *)
(* the empty message.                                                      *)
(***************************************************************************)
C2_FreshNameAccepted ==
    (pc = "returned" /\ PassesSyntax /\ ~ entryExisted) => result = <<>>

C2_Witness ==
    /\ pc = "returned"
    /\ PassesSyntax
    /\ ~ entryExisted
    /\ ~ recursive
    /\ lookups = 1
    /\ result = <<>>

(***************************************************************************)
(* C3: called with the empty name, validateFileName returns the empty      *)
(* message, for any parent, either value of recursive and whatever         *)
(* entries exist.                                                          *)
(***************************************************************************)
C3_EmptyNameAccepted ==
    (name = <<>> /\ pc # "called") => (pc = "returned" /\ result = <<>> /\ lookups = 0)

C3_Witness ==
    /\ name = <<>>
    /\ pc = "returned"
    /\ result = <<>>
    /\ ~ recursive
    /\ entryExisted
    /\ parent = <<"/", "r">>

(***************************************************************************)
(* C4 as stated: for every name that starts with "/", also when nested     *)
(* paths are disallowed, the call returns the rejection message that       *)
(* mentions absolute paths.                                                *)
(***************************************************************************)
C4_Original ==
    (startsWith(name, "/") /\ pc # "called")
        => (pc = "returned" /\ Contains(result, AbsolutePathsWords))

(***************************************************************************)
(* C4 amended: for every name that starts with "/" the call returns a      *)
(* rejection without any lookup: the message that mentions absolute paths  *)
(* when recursive is true, and "Invalid file or folder name" when          *)
(* recursive is false.                                                     *)
(***************************************************************************)
C4_LeadingSlashRejected ==
    (startsWith(name, "/") /\ pc # "called")
        => /\ pc = "returned"
           /\ lookups = 0
           /\ recursive => (result = MsgAbsolute /\ Contains(result, AbsolutePathsWords))
           /\ ~ recursive => (result = MsgInvalid /\ ~ Contains(result, AbsolutePathsWords))

C4_Witness ==
    /\ startsWith(name, "/")
    /\ Len(name) >= 2
    /\ ~ recursive
    /\ pc = "returned"
    /\ result = MsgInvalid

(***************************************************************************)
(* C5 as stated: for every non-empty name with leading or trailing         *)
(* whitespace (read here as the space of the examples " pad" and "pad ")   *)
(* the call returns the whitespace rejection message, for either value of  *)
(* recursive and whether or not the entry exists.                          *)
(***************************************************************************)
C5_Original ==
    (name # <<>> /\ LeadingOrTrailingSpace(name) /\ pc # "called")
        => (pc = "returned" /\ result = MsgWhitespace)

(***************************************************************************)
(* C5 amended: for every name that begins or ends with a space character   *)
(* (U+0020), does not start with "/" and, when recursive is false, is a    *)
(* valid single segment, the call returns the whitespace rejection         *)
(* message without any lookup, whether or not the entry exists.            *)
(***************************************************************************)
C5_SpacePaddedRejected ==
    (/\ LeadingOrTrailingSpace(name)
     /\ ~ startsWith(name, "/")
     /\ recursive \/ validFilename(name)
     /\ pc # "called")
        => (pc = "returned" /\ result = MsgWhitespace /\ lookups = 0)

C5_Witness ==
    /\ endsWith(name, " ")
    /\ ~ startsWith(name, " ")
    /\ ~ recursive
    /\ entryExisted
    /\ pc = "returned"
    /\ result = MsgWhitespace

(***************************************************************************)
(* C6: when recursive is false, every non-empty name that is not a valid   *)
(* single path segment, in particular every name with a "/" or "\", is     *)
(* rejected with "Invalid file or folder name"; so no name accepted for    *)
(* Rename has a separator or is "." or "..".                               *)
(***************************************************************************)
C6_NoNestedRename ==
    /\ (~ recursive /\ name # <<>> /\ ~ validFilename(name) /\ pc # "called")
            => (pc = "returned" /\ result = MsgInvalid /\ lookups = 0)
    /\ (~ recursive /\ HasSeparator(name) /\ pc # "called")
            => (pc = "returned" /\ result = MsgInvalid)
    /\ (~ recursive /\ pc = "returned" /\ result = <<>>)
            => (~ HasSeparator(name) /\ name \notin {<<".">>, <<".", ".">>})

C6_Witness ==
    /\ ~ recursive
    /\ HasSeparator(name)
    /\ ~ startsWith(name, "/")
    /\ EverySegmentValid(name)
    /\ pc = "returned"
    /\ result = MsgInvalid

(***************************************************************************)
(* C7: when recursive is true, a non-empty name is split on "/" and "\",   *)
(* and when a segment is empty, not a valid file name or whitespace only   *)
(* the call returns a non-empty rejection message, before any existence    *)
(* lookup and whatever entries exist.                                      *)
(***************************************************************************)
C7_BadSegmentRejected ==
    (recursive /\ name # <<>> /\ ~ EverySegmentValid(name) /\ pc # "called")
        => (pc = "returned" /\ result # <<>> /\ lookups = 0)

C7_Witness ==
    /\ recursive
    /\ ~ startsWith(name, "/")
    /\ ~ LeadingOrTrailingSpace(name)
    /\ HasSeparator(name)
    /\ ~ EverySegmentValid(name)
    /\ entryExisted
    /\ pc = "returned"
    /\ result = NotValidPrefix \o DisplayForm(name) \o NotValidSuffix

(***************************************************************************)
(* C8 as stated: the display form in a rejection message is the name when  *)
(* it has at most 30 characters and else its first 30 characters and an    *)
(* ellipsis; for a colliding name of more than 30 characters the message   *)
(* contains the first 30 characters and the ellipsis and does not contain  *)
(* the full name.                                                          *)
(***************************************************************************)
ShowsDisplayForm ==
    /\ (pc = "returned" /\ PassesSyntax /\ entryExisted)
            => result = ExistsPrefix \o DisplayForm(name) \o ExistsSuffix
    /\ (pc = "returned" /\ result \notin {<<>>, MsgInvalid, MsgAbsolute, MsgWhitespace})
            => result \in {ExistsPrefix \o DisplayForm(name) \o ExistsSuffix,
                           NotValidPrefix \o DisplayForm(name) \o NotValidSuffix}

C8_Original ==
    /\ ShowsDisplayForm
    /\ (pc = "returned" /\ PassesSyntax /\ entryExisted /\ Len(name) > 30)
            => /\ Contains(result, SubSeq(name, 1, 30) \o <<".", ".", ".">>)
               /\ ~ Contains(result, name)

(***************************************************************************)
(* C8 amended: the display form is as stated, and for a colliding name of  *)
(* more than 30 characters the message contains the first 30 characters    *)
(* and the ellipsis; it does not contain the full name when the name has   *)
(* more than 33 characters (of 31 to 33, a name whose characters after the *)
(* 30th are dots is itself a part of the message).                         *)
(***************************************************************************)
C8_TruncatedDisplayForm ==
    /\ ShowsDisplayForm
    /\ (pc = "returned" /\ PassesSyntax /\ entryExisted /\ Len(name) > 30)
            => /\ Contains(result, SubSeq(name, 1, 30) \o <<".", ".", ".">>)
               /\ DisplayForm(name) # name
               /\ Len(name) > 33 => ~ Contains(result, name)

C8_Witness ==
    /\ pc = "returned"
    /\ PassesSyntax
    /\ entryExisted
    /\ Len(name) = 40
    /\ result = ExistsPrefix \o SubSeq(name, 1, 30) \o <<".", ".", ".">> \o ExistsSuffix
    /\ ~ Contains(result, name)

(***************************************************************************)
(* C9 as stated: whenever the call returns the empty message, the name is  *)
(* non-empty, has no separator unless recursive is true, has no leading or *)
(* trailing whitespace, and no entry existed at the resolved location at   *)
(* the time of the lookup.                                                 *)
(***************************************************************************)
C9_Original ==
    (pc = "returned" /\ result = <<>>)
        => /\ name # <<>>
           /\ HasSeparator(name) => recursive
           /\ ~ LeadingOrTrailingWhitespace(name)
           /\ ~ entryExisted

(***************************************************************************)
(* C9 amended: whenever the call returns the empty message, either the     *)
(* name is empty, or it has no separator unless recursive is true, neither *)
(* begins nor ends with a space (U+0020) or a control whitespace           *)
(* character, exactly one lookup was made and no entry existed at the      *)
(* resolved location at the time of that lookup.                           *)
(***************************************************************************)
C9_AcceptedNames ==
    (pc = "returned" /\ result = <<>>)
        => \/ name = <<>>
           \/ /\ HasSeparator(name) => recursive
              /\ name[1] \notin WhitespaceChars \ {NBSP}
              /\ name[Len(name)] \notin WhitespaceChars \ {NBSP}
              /\ lookups = 1
              /\ ~ entryExisted

C9_Witness ==
    /\ pc = "returned"
    /\ result = <<>>
    /\ ~ recursive
    /\ Len(name) >= 2
    /\ name[1] = NBSP
    /\ lookups = 1
    /\ ~ entryExisted
    /\ childUri \in fs

(***************************************************************************)
(* C10: validateFileName always completes by returning a string and never  *)
(* throws or rejects, also when the existence lookup fails.                *)
(***************************************************************************)
C10_NeverRejects == pc # "rejected"

(***************************************************************************)
(* Vocabulary of the properties of the commands.                           *)
(***************************************************************************)
FileOperations == {"create", "createFolder", "move"}

\* the directory or entry a call acts on was looked up without failure
SubjectResolved(o) ==
    IF o.op = "addRoot" THEN o.target \notin failedLookups
    ELSE IF o.op = "move" THEN uri \notin failedLookups /\ parentOf(uri) \notin failedLookups
    ELSE parent \notin failedLookups

(***************************************************************************)
(* C11: in every command flow a failing fileService.resolve is treated as  *)
(* "entry does not exist": the failure never leaves the command, and no    *)
(* create, move or addRoot is made for the unresolved entry.               *)
(***************************************************************************)
C11_ResolveFailureContained ==
    /\ cpc # "threw"
    /\ \A i \in DOMAIN ops : SubjectResolved(ops[i])

(***************************************************************************)
(* C12: removeFolderFromWorkspace calls workspaceService.removeRoots at    *)
(* most once, only after the ConfirmDialog answered true, and only with    *)
(* those of the given URIs that were roots when it started; when none of   *)
(* the URIs is a root no dialog opens; when the user declines nothing is   *)
(* removed.                                                                *)
(***************************************************************************)
C12_RemoveOnlyConfirmedRoots ==
    /\ Len(removeCalls) <= 1
    /\ dialogs <= 1
    /\ \A i \in DOMAIN removeCalls :
        /\ removeCalls[i].answer = TRUE
        /\ dialogs = 1
        /\ removeCalls[i].uris = SelectSeq(uris, LAMBDA u : u \in rootsAtStart)
        /\ Range(removeCalls[i].uris) \subseteq rootsAtStart \cap Range(uris)
    /\ (cmd = "removeFolder" /\ cpc # "start" /\ Range(uris) \cap rootsAtStart = {})
            => (dialogs = 0 /\ removeCalls = <<>> /\ roots = rootsAtStart)
    /\ cpc = "declined" => removeCalls = <<>>
    /\ cpc = "removed" => roots \cap Range(toRemove) = {}

C12_Witness ==
    /\ cmd = "removeFolder"
    /\ cpc = "removed"
    /\ Len(uris) = 2
    /\ Len(removeCalls) = 1
    /\ Len(removeCalls[1].uris) = 1
    /\ Range(uris) \ rootsAtStart # {}

(***************************************************************************)
(* C13: once New Folder's dialog is accepted with a name and createFolder  *)
(* has completed, exactly one event {parent, uri} has been fired, on       *)
(* onDidCreateNewFolder and none on onDidCreateNewFile; New File likewise  *)
(* fires exactly one event on onDidCreateNewFile; no event is fired when   *)
(* the dialog is cancelled or the creation fails.                          *)
(***************************************************************************)
C13_OneEventPerCreation ==
    /\ (cmd = "newFolder" /\ cpc = "created")
            => events = <<[emitter |-> "onDidCreateNewFolder",
                           parent |-> parent, uri |-> resolve(parent, name)]>>
    /\ (cmd = "newFile" /\ cpc = "created")
            => events = <<[emitter |-> "onDidCreateNewFile",
                           parent |-> parent, uri |-> resolve(parent, name)]>>
    /\ cpc # "created" => events = <<>>

(***************************************************************************)
(* C14 as stated: under any interleaving with other filesystem activity,   *)
(* when the command calls create, createFolder or move for the accepted    *)
(* name, no entry exists at parentUri.resolve(name).                       *)
(***************************************************************************)
C14_Original ==
    \A i \in DOMAIN ops : ops[i].op \in FileOperations => ~ ops[i].existed

(***************************************************************************)
(* C14 amended: when the command calls create, createFolder or move for    *)
(* the accepted name, the validation of that name had made one existence   *)
(* lookup and found no entry at parentUri.resolve(name) at the time of     *)
(* that lookup; nothing is checked again when the operation is issued.     *)
(***************************************************************************)
C14_FreeWhenLookedUp ==
    \A i \in DOMAIN ops :
        ops[i].op \in FileOperations
            => /\ ops[i].lookups = 1
               /\ ~ ops[i].lookupSawEntry
               /\ ops[i].target = childUri
               /\ name # <<>>

C14_Witness ==
    /\ cmd = "rename"
    /\ Len(ops) = 1
    /\ ops[1].op = "move"
    /\ ops[1].existed
    /\ ~ ops[1].lookupSawEntry
    /\ ops[1].lookups = 1

=============================================================================
